---- MODULE Spec2Model ----
(***************************************************************************)
(* State-machine model of fastapi-minio-workspaces:                        *)
(*   - Boto3ClientCache and get_boto      (workspacesio/depends.py)        *)
(*   - S3Token.expiration column default  (workspacesio/models.py)         *)
(*   - handle_request_error / exit_with   (cli/util.py)                    *)
(*   - ApiKey.create / ApiKey.verify      (workspacesio/models.py)         *)
(*                                                                         *)
(* Strings are sequences of tokens (a token is one character, or one       *)
(* indivisible lower-case chunk such as "http://").  SHA-256 is modelled   *)
(* as an ideal hash: the digest is identified with its preimage, so two    *)
(* digests are equal exactly when the hashed byte strings are equal.       *)
(***************************************************************************)
EXTENDS Integers, Sequences, FiniteSets, TLC

VARIABLES
    cache,      \* cache[c]: the dict self.cache of Boto3ClientCache instance c
    ncaches,    \* number of Boto3ClientCache instances constructed so far
    th,         \* th[t]: thread t's cache reference, call arguments, locals, position
    built,      \* log of every client construction (boto3.client / minio.Minio)
    kq,         \* one node whose key is derived, a field changed, the key derived again
    clock,      \* the wall clock, in days
    models,     \* workspacesio.models: whether imported, when, S3Token.expiration's default
    minio_token,\* the rows of table minio_token (S3Token)
    cli,        \* one run of a CLI command: the response, the output, the exit status
    apikey      \* one ApiKey: the key string, the object, its verification, its insert

cacheVars == <<cache, ncaches, th, built>>
tokenVars == <<clock, models, minio_token>>

vars == <<cache, ncaches, th, built, kq, clock, models, minio_token, cli, apikey>>

----------------------------------------------------------------------------
(* Bounds *)

MaxThreads == 2
MaxCaches == 2
MaxClients == 2
MaxClock == 9
MaxRows == 2

Threads == 1..MaxThreads

----------------------------------------------------------------------------
(* Strings and optional values *)

\* str.lower() on one token; the upper-case tokens of the model are S, K, U.
LowerChar(ch) ==
    CASE ch = "S" -> "s"
      [] ch = "K" -> "k"
      [] ch = "U" -> "u"
      [] OTHER -> ch

\* str.lower()
Lower(s) == [i \in 1..Len(s) |-> LowerChar(s[i])]

\* Python None / a present string, for the nullable columns
None == [some |-> FALSE, v |-> <<>>]
Some(s) == [some |-> TRUE, v |-> s]

\* Python truthiness of an Optional[str]: None and "" are falsy
Truthy(o) == o.some /\ o.v # <<>>

----------------------------------------------------------------------------
(* Storage nodes *)

nA ==
    [name |-> "a", region_name |-> <<"r">>, api_url |-> <<"http://", "u">>,
     sts_api_url |-> None, access_key_id |-> <<"k">>,
     secret_access_key |-> <<"s">>, assume_role_arn |-> None]

\* node a after its secret was rotated to a secret differing only in letter case
nCase == [nA EXCEPT !.secret_access_key = <<"S">>]
\* node a after its secret was rotated to an unrelated secret
nRot == [nA EXCEPT !.secret_access_key = <<"z">>]
\* same endpoint and keys as a, with a separate STS url
nSts == [nA EXCEPT !.name = "c", !.sts_api_url = Some(<<"http://", "t">>)]
\* same as a, with an empty (not NULL) assume_role_arn
nEmptyArn == [nA EXCEPT !.name = "d", !.assume_role_arn = Some(<<>>)]
\* same as a, with an assume_role_arn: a node on AWS
nAws == [nA EXCEPT !.name = "e", !.assume_role_arn = Some(<<"arn">>)]
\* an independently registered node with the same facts as a
nTwin == [nA EXCEPT !.name = "g"]

Nodes == {nA, nCase, nRot, nSts, nEmptyArn, nAws, nTwin}

ClientTypes == {"s3", "sts", "ec2"}

----------------------------------------------------------------------------
(* Boto3ClientCache._get_primary_key *)

\* a check that lets every client type through
SupportedAny(client_type) == TRUE

\* client_type in ["s3", "sts"]
Supported(client_type) == client_type \in {"s3", "sts"}

\* the key with the node's name mixed in
PrimaryKeyTextNamed(client_type, node) ==
    Lower(<<client_type>> \o node.region_name \o node.api_url
        \o node.access_key_id \o node.secret_access_key \o <<node.name>>)

\* the f-string, lower-cased and encoded
PrimaryKeyText(client_type, node) ==
    Lower(<<client_type>> \o node.region_name \o node.api_url
        \o node.access_key_id \o node.secret_access_key)

\* hashlib.sha256(primary_key).hexdigest(), then the suffix the caller appends
sha256(bytes, suffix) == [hex |-> bytes, tail |-> suffix]

\* the key get_client uses      (defined for supported client types)
_get_primary_key(client_type, node) == sha256(PrimaryKeyText(client_type, node), "")

\* the key get_minio_sdk_client uses
MinioKey(node) == sha256(PrimaryKeyText("s3", node), "minio")

----------------------------------------------------------------------------
(* Clients *)

\* the client local of a call before anything is assigned to it (None)
NoClient ==
    [id |-> 0, lib |-> "", service |-> "", region_name |-> <<>>,
     endpoint_url |-> <<>>, aws_access_key_id |-> <<>>,
     aws_secret_access_key |-> <<>>, signature_version |-> "", secure |-> ""]

\* the endpoint_url get_client gives an sts client
StsEndpoint(node) ==
    LET is_aws == node.assume_role_arn.some
    IN  IF Truthy(node.sts_api_url) THEN node.sts_api_url.v
        ELSE IF is_aws
             THEN <<"https://", "sts.">> \o node.region_name \o <<".amazonaws.com">>
             ELSE node.api_url

\* boto3.client("s3", ..., config=Config(signature_version="s3v4"))
S3Client(id, node) ==
    [id |-> id, lib |-> "boto3", service |-> "s3",
     region_name |-> node.region_name, endpoint_url |-> node.api_url,
     aws_access_key_id |-> node.access_key_id,
     aws_secret_access_key |-> node.secret_access_key,
     signature_version |-> "s3v4", secure |-> ""]

\* boto3.client("sts", ...)
StsClient(id, node) ==
    [id |-> id, lib |-> "boto3", service |-> "sts",
     region_name |-> node.region_name, endpoint_url |-> StsEndpoint(node),
     aws_access_key_id |-> node.access_key_id,
     aws_secret_access_key |-> node.secret_access_key,
     signature_version |-> "", secure |-> ""]

\* urllib.parse.urlparse(url).netloc: what follows the scheme, up to the first "/"
Netloc(url) ==
    IF Len(url) = 0 \/ url[1] \notin {"http://", "https://"} THEN <<>>
    ELSE LET slashes == {i \in 2..Len(url) : url[i] = "/"}
             last == IF slashes = {} THEN Len(url)
                     ELSE (CHOOSE i \in slashes : \A j \in slashes : i <= j) - 1
         IN  SubSeq(url, 2, last)

\* minio.Minio(url.netloc, access_key=..., secret_key=..., secure=False)
MinioClient(id, node) ==
    [id |-> id, lib |-> "minio", service |-> "s3", region_name |-> <<>>,
     endpoint_url |-> Netloc(node.api_url),
     aws_access_key_id |-> node.access_key_id,
     aws_secret_access_key |-> node.secret_access_key,
     signature_version |-> "", secure |-> "False"]

----------------------------------------------------------------------------
(* Threads calling into a Boto3ClientCache *)

\* a thread between calls: never called, returned, or the call raised
Resting == {"idle", "done", "ValueError", "NotImplementedError"}

IdleThread(c) ==
    [boto |-> c, pc |-> "idle", fn |-> "", client_type |-> "",
     node |-> nA, client |-> NoClient]

\* primary_key_short_sha256 of thread t's current call
KeyOf(t) ==
    IF th[t].fn = "get_minio_sdk_client" THEN MinioKey(th[t].node)
    ELSE _get_primary_key(th[t].client_type, th[t].node)

\* Boto3ClientCache.__init__ ran once; every thread holds that instance.
CacheInit ==
    /\ ncaches = 1
    /\ cache = <<<<>>>>
    /\ th = [t \in Threads |-> IdleThread(1)]
    /\ built = <<>>

\* get_boto: the dependency yields a new Boto3ClientCache to the request
get_boto(t) ==
    /\ th[t].pc \in Resting
    /\ ncaches < MaxCaches
    /\ ncaches' = ncaches + 1
    /\ cache' = Append(cache, <<>>)
    /\ th' = [th EXCEPT ![t] = IdleThread(ncaches + 1)]
    /\ UNCHANGED <<apikey, built, kq, tokenVars, cli>>

\* self.cache.get(key, None)
CacheGet(c, key) == IF key \in DOMAIN cache[c] THEN cache[c][key] ELSE NoClient

\* self.cache[key] = client
CachePut(c, key, client) == [cache EXCEPT ![c] = (key :> client) @@ cache[c]]

\* get_client, lines 47-49: key, lookup, hit returns
get_client_lookup(t, client_type, node) ==
    /\ th[t].pc \in Resting
    /\ LET call == [th[t] EXCEPT !.fn = "get_client", !.client_type = client_type,
                                 !.node = node, !.client = NoClient]
       IN  IF ~Supported(client_type)
           THEN th' = [th EXCEPT ![t] = [call EXCEPT !.pc = "ValueError"]]
           ELSE LET client == CacheGet(th[t].boto, _get_primary_key(client_type, node))
                IN  th' = [th EXCEPT ![t] =
                             [call EXCEPT !.client = client,
                                          !.pc = IF client = NoClient
                                                 THEN "construct" ELSE "done"]]
    /\ UNCHANGED <<apikey, cache, ncaches, built, kq, tokenVars, cli>>

\* get_client, lines 50-76: construct on a miss
get_client_construct(t) ==
    /\ th[t].pc = "construct"
    /\ th[t].fn = "get_client"
    /\ Len(built) < MaxClients
    /\ LET id == Len(built) + 1
           client == IF th[t].client_type = "s3" THEN S3Client(id, th[t].node)
                     ELSE StsClient(id, th[t].node)
       IN  IF th[t].client_type \in {"s3", "sts"}
           THEN /\ th' = [th EXCEPT ![t].client = client, ![t].pc = "store"]
                /\ built' = Append(built,
                                   [cache |-> th[t].boto, fn |-> th[t].fn,
                                    client_type |-> th[t].client_type,
                                    node |-> th[t].node, client |-> client])
           ELSE /\ th' = [th EXCEPT ![t].pc = "NotImplementedError"]
                /\ UNCHANGED <<apikey, built, kq, tokenVars, cli>>
    /\ UNCHANGED <<apikey, cache, ncaches, kq, tokenVars, cli>>

\* get_client, lines 77-78: store, return
get_client_store(t) ==
    /\ th[t].pc = "store"
    /\ th[t].fn = "get_client"
    /\ cache' = CachePut(th[t].boto, KeyOf(t), th[t].client)
    /\ th' = [th EXCEPT ![t].pc = "done"]
    /\ UNCHANGED <<apikey, ncaches, built, kq, tokenVars, cli>>

\* get_minio_sdk_client, lines 83-88: key, lookup, hit returns
get_minio_sdk_client_lookup(t, node) ==
    /\ th[t].pc \in Resting
    /\ LET client == CacheGet(th[t].boto, MinioKey(node))
       IN  th' = [th EXCEPT ![t] =
                    [th[t] EXCEPT !.fn = "get_minio_sdk_client", !.client_type = "s3",
                                  !.node = node, !.client = client,
                                  !.pc = IF client = NoClient
                                         THEN "construct" ELSE "done"]]
    /\ UNCHANGED <<apikey, cache, ncaches, built, kq, tokenVars, cli>>

\* get_minio_sdk_client, lines 89-94: construct on a miss
get_minio_sdk_client_construct(t) ==
    /\ th[t].pc = "construct"
    /\ th[t].fn = "get_minio_sdk_client"
    /\ Len(built) < MaxClients
    /\ LET client == MinioClient(Len(built) + 1, th[t].node)
       IN  /\ th' = [th EXCEPT ![t].client = client, ![t].pc = "store"]
           /\ built' = Append(built,
                              [cache |-> th[t].boto, fn |-> th[t].fn,
                               client_type |-> th[t].client_type,
                               node |-> th[t].node, client |-> client])
    /\ UNCHANGED <<apikey, cache, ncaches, kq, tokenVars, cli>>

\* get_minio_sdk_client, lines 95-96: store, return
get_minio_sdk_client_store(t) ==
    /\ th[t].pc = "store"
    /\ th[t].fn = "get_minio_sdk_client"
    /\ cache' = CachePut(th[t].boto, KeyOf(t), th[t].client)
    /\ th' = [th EXCEPT ![t].pc = "done"]
    /\ UNCHANGED <<apikey, ncaches, built, kq, tokenVars, cli>>

\* what thread t may do next: start a get_client call with arguments drawn from
\* `calls`, start a get_minio_sdk_client call with a node drawn from `nodes`,
\* or continue the call it is in
Calls(t, calls, nodes) ==
    \/ \E call \in calls : get_client_lookup(t, call[1], call[2])
    \/ get_client_construct(t)
    \/ get_client_store(t)
    \/ \E node \in nodes : get_minio_sdk_client_lookup(t, node)
    \/ get_minio_sdk_client_construct(t)
    \/ get_minio_sdk_client_store(t)

\* the nodes the concurrent threads ask for: keys that collide, and one that does not
RaceNodes == {nA, nCase, nSts, nRot}

\* the calls of the sequential run
SeqCalls ==
    {<<"s3", nA>>, <<"s3", nTwin>>, <<"s3", nCase>>,
     <<"sts", nA>>, <<"sts", nSts>>, <<"sts", nEmptyArn>>, <<"sts", nAws>>,
     <<"ec2", nA>>}

----------------------------------------------------------------------------
(* Deriving a key, changing one field of the node, deriving the key again *)

RegionValues == {<<"r">>}
ApiUrlValues == {<<"http://", "u">>, <<"http://", "U">>, <<"http://", "u", "/", "p">>}
AccessKeyValues == {<<"k">>, <<"K">>, <<"k", "s">>}
SecretValues == {<<"s">>, <<"S">>, <<"z">>}

KeyNodes ==
    {[nA EXCEPT !.region_name = r, !.api_url = u, !.access_key_id = k,
                !.secret_access_key = x] :
        r \in RegionValues, u \in ApiUrlValues, k \in AccessKeyValues, x \in SecretValues}

NoDigest == sha256(<<>>, "unset")

KeyOff ==
    kq = [pc |-> "off", client_type |-> "", node |-> nA, changed |-> "",
          before |-> NoDigest, after |-> NoDigest]

KeyInit ==
    \E client_type \in {"s3", "sts"}, node \in KeyNodes :
        kq = [pc |-> "registered", client_type |-> client_type, node |-> node,
              changed |-> "", before |-> NoDigest, after |-> NoDigest]

\* _get_primary_key on the node as registered
key_before ==
    /\ kq.pc = "registered"
    /\ kq' = [kq EXCEPT !.pc = "keyed",
                        !.before = _get_primary_key(kq.client_type, kq.node)]
    /\ UNCHANGED <<apikey, cacheVars, tokenVars, cli>>

\* the operator changes the node's secret, access key id or API url
change_secret(x) ==
    /\ kq.pc = "keyed"
    /\ x # kq.node.secret_access_key
    /\ kq' = [kq EXCEPT !.pc = "changed", !.changed = "secret_access_key",
                        !.node.secret_access_key = x]
    /\ UNCHANGED <<apikey, cacheVars, tokenVars, cli>>

change_access_key(k) ==
    /\ kq.pc = "keyed"
    /\ k # kq.node.access_key_id
    /\ kq' = [kq EXCEPT !.pc = "changed", !.changed = "access_key_id",
                        !.node.access_key_id = k]
    /\ UNCHANGED <<apikey, cacheVars, tokenVars, cli>>

change_api_url(u) ==
    /\ kq.pc = "keyed"
    /\ u # kq.node.api_url
    /\ kq' = [kq EXCEPT !.pc = "changed", !.changed = "api_url", !.node.api_url = u]
    /\ UNCHANGED <<apikey, cacheVars, tokenVars, cli>>

\* _get_primary_key on the changed node
key_after ==
    /\ kq.pc = "changed"
    /\ kq' = [kq EXCEPT !.pc = "rekeyed",
                        !.after = _get_primary_key(kq.client_type, kq.node)]
    /\ UNCHANGED <<apikey, cacheVars, tokenVars, cli>>

----------------------------------------------------------------------------
(* S3Token rows and the default of the expiration column *)

\* datetime.timedelta(days=7)
SevenDays == 7

NoTime == [some |-> FALSE, v |-> 0]
At(d) == [some |-> TRUE, v |-> d]

TokenInit ==
    /\ clock = 0
    /\ models = [imported |-> FALSE, at |-> 0, expiration_default |-> 0]
    /\ minio_token = <<>>

tick ==
    /\ clock < MaxClock
    /\ clock' = clock + 1
    /\ UNCHANGED <<apikey, models, minio_token, cacheVars, kq, cli>>

\* importing workspacesio.models runs the class body of S3Token once: the
\* argument default= of the expiration Column is the value of
\* datetime.datetime.now() + datetime.timedelta(days=7) at that moment
import_models ==
    /\ ~models.imported
    /\ models' = [imported |-> TRUE, at |-> clock,
                  expiration_default |-> clock + SevenDays]
    /\ UNCHANGED <<apikey, clock, minio_token, cacheVars, kq, cli>>

\* a default computed for each row at insert time
ExpirationPerRow(now) == now + SevenDays

\* the expiration a row gets when none is given: the Column's scalar default
ExpirationDefault(now) == models.expiration_default

\* the created a row gets: BaseModel.created, default=datetime.datetime.utcnow,
\* a callable, called for each row
CreatedDefault(now) == now

\* an S3Token is added and flushed, with or without an explicit expiration
insert_S3Token(expiration) ==
    /\ models.imported
    /\ Len(minio_token) < MaxRows
    /\ minio_token' = Append(minio_token,
           [created |-> CreatedDefault(clock),
            expiration |-> IF expiration.some THEN expiration.v
                           ELSE ExpirationDefault(clock),
            explicit |-> expiration.some])
    /\ UNCHANGED <<apikey, clock, models, cacheVars, kq, cli>>

----------------------------------------------------------------------------
(* The CLI: handle_request_error and exit_with *)

\* Python values, as far as bool() and dict.get can tell them apart: the type,
\* whether the value is zero or empty (size 0), and a dict's keys
PyNone == [t |-> "NoneType", size |-> 0, keys |-> {}]
PyBoolean(b) == [t |-> "bool", size |-> IF b THEN 1 ELSE 0, keys |-> {}]
PyInt(n) == [t |-> "int", size |-> n, keys |-> {}]
PyStr(text) == [t |-> "str", size |-> IF text = "" THEN 0 ELSE 1, keys |-> {}]
PyList(n) == [t |-> "list", size |-> n, keys |-> {}]
PyDict(keys) == [t |-> "dict", size |-> Cardinality(keys), keys |-> keys]

\* bool(v): None, False, 0, "", [] and {} are falsy
PyBool(v) == v.size # 0

\* the response bodies a server or a proxy in front of it may send
Texts ==
    {"", "Internal Server Error", "null", "false", "0", "[]", "{}",
     "{\"detail\": \"Not Found\"}", "{\"error\": \"denied\"}", "{\"id\": 7}"}

\* json.loads / Response.json: the value, or ValueError (JSONDecodeError)
Json(text) ==
    CASE text = "null" -> [valid |-> TRUE, value |-> PyNone]
      [] text = "false" -> [valid |-> TRUE, value |-> PyBoolean(FALSE)]
      [] text = "0" -> [valid |-> TRUE, value |-> PyInt(0)]
      [] text = "[]" -> [valid |-> TRUE, value |-> PyList(0)]
      [] text = "{}" -> [valid |-> TRUE, value |-> PyDict({})]
      [] text = "{\"detail\": \"Not Found\"}" ->
            [valid |-> TRUE, value |-> PyDict({"detail"})]
      [] text = "{\"error\": \"denied\"}" ->
            [valid |-> TRUE, value |-> PyDict({"error"})]
      [] text = "{\"id\": 7}" -> [valid |-> TRUE, value |-> PyDict({"id"})]
      [] OTHER -> [valid |-> FALSE, value |-> PyNone]

StatusCodes == {200, 204, 404, 500}

\* the requests the workspace commands send: create posts json, delete has no body;
\* str(r.request.body) is "b'...'" for the bytes of a json body and "None" for none
Requests ==
    {[method |-> "POST", body |-> "b'{\"name\": \"w\"}'", authorization |-> TRUE],
     [method |-> "DELETE", body |-> "None", authorization |-> TRUE]}

Responses ==
    {[status_code |-> c, text |-> x, request |-> q] :
        c \in StatusCodes, x \in Texts, q \in Requests}

\* requests.Response.ok: the status is no 4xx or 5xx
Ok(r) == r.status_code < 400

NoContext == [method |-> "", status |-> 0, body |-> PyNone, authorization |-> FALSE]
NoOut == [keys |-> {}, context |-> NoContext, error |-> PyNone, response |-> PyNone]

CliIdle(pc) ==
    [pc |-> pc, r |-> [status_code |-> 0, text |-> "", request |->
                          [method |-> "", body |-> "", authorization |-> FALSE]],
     out |-> NoOut, echoed |-> FALSE, status |-> -1]

CliOff == cli = CliIdle("off")

CliInit == cli = CliIdle("start")

\* r = ctx["session"].post(...) / .delete(...)
send_request(r) ==
    /\ cli.pc = "start"
    /\ cli' = [cli EXCEPT !.pc = "responded", !.r = r]
    /\ UNCHANGED <<apikey, cacheVars, kq, tokenVars>>

\* handle_request_error(r): the dict it returns, or the exception leaving it
handle_request_error ==
    /\ cli.pc = "responded"
    /\ LET r == cli.r
           parsed == Json(r.text)
           error_text == IF parsed.valid THEN parsed.value ELSE PyStr(r.text)
           body == IF Json(r.request.body).valid THEN Json(r.request.body).value
                   ELSE PyStr(r.request.body)
       IN  IF ~Ok(r)
           THEN cli' = [cli EXCEPT !.pc = "handled",
                           !.out = [keys |-> {"context", "error"},
                                    context |-> [method |-> r.request.method,
                                                 status |-> r.status_code,
                                                 body |-> body,
                                                 authorization |-> FALSE],
                                    error |-> error_text,
                                    response |-> PyNone]]
           ELSE IF parsed.valid
                THEN cli' = [cli EXCEPT !.pc = "handled",
                                !.out = [NoOut EXCEPT !.keys = {"response"},
                                                      !.response = parsed.value]]
                ELSE cli' = [cli EXCEPT !.pc = "ValueError"]
    /\ UNCHANGED <<apikey, cacheVars, kq, tokenVars>>

\* out.get("error")
OutGetError(out) == IF "error" \in out.keys THEN out.error ELSE PyNone

\* exit_with(out): echo, exit(1) if out.get("error"), else exit(0)
exit_with ==
    /\ cli.pc = "handled"
    /\ cli' = [cli EXCEPT !.pc = "exited", !.echoed = TRUE,
                          !.status = IF PyBool(OutGetError(cli.out)) THEN 1 ELSE 0]
    /\ UNCHANGED <<apikey, cacheVars, kq, tokenVars>>

\* the ValueError of r.json() is caught nowhere: the interpreter prints the
\* traceback and exits with status 1
uncaught_exception ==
    /\ cli.pc = "ValueError"
    /\ cli' = [cli EXCEPT !.pc = "exited", !.status = 1]
    /\ UNCHANGED <<apikey, cacheVars, kq, tokenVars>>

----------------------------------------------------------------------------
(* ApiKey.create and ApiKey.verify *)

\* user.id of the users keys are made for
UserIds == {"u1", "u2", "u3"}
\* what secrets.token_urlsafe may return
KeyStrings == {"k1", "k2", "k3"}
\* what bcrypt.gensalt may return
Salts == {"salt1", "salt2"}

\* bcrypt.hashpw: an ideal hash, determined by the salt and the password
hashpw(password, salt) == [salt |-> salt, digest |-> <<salt, password>>]

\* bcrypt.checkpw: hash the password with the salt of the stored hash, compare
checkpw(password, hashed) == hashpw(password, hashed.salt) = hashed

NoHash == [some |-> FALSE, v |-> hashpw("", "")]
SomeHash(h) == [some |-> TRUE, v |-> h]

\* cls(user_id=...): the column attributes (None until set), and the instance's
\* __dict__ of attributes that are no columns
NewApiKey(user_id) ==
    [user_id |-> user_id, key_id |-> "", secret_hash |-> NoHash, dict |-> <<>>]

ApiKeyIdle(pc) ==
    [pc |-> pc, key_str |-> "", key_db |-> NewApiKey(""), key |-> "",
     result |-> "", flush |-> ""]

ApiKeyOff == apikey = ApiKeyIdle("off")

ApiKeyInit == apikey = ApiKeyIdle("start")

\* ApiKey.create(user): returns (key_str, key_db)
ApiKey_create(user_id, key_str, salt) ==
    /\ apikey.pc = "start"
    /\ LET key_hash == hashpw(key_str, salt)
           key_db == [NewApiKey(user_id) EXCEPT
                         !.dict = ("key_hash" :> key_hash) @@ @]
       IN  apikey' = [apikey EXCEPT !.pc = "created", !.key_str = key_str,
                                    !.key_db = key_db]
    /\ UNCHANGED <<cacheVars, kq, tokenVars, cli>>

\* ApiKey.verify(apikey, key): reads apikey.token_hash, which is no column
ApiKey_verify(key) ==
    /\ apikey.pc = "created"
    /\ apikey' = [apikey EXCEPT !.pc = "verified", !.key = key,
                      !.result =
                          IF "token_hash" \notin DOMAIN apikey.key_db.dict
                          THEN "AttributeError"
                          ELSE IF checkpw(key, apikey.key_db.dict["token_hash"])
                               THEN "True" ELSE "False"]
    /\ UNCHANGED <<cacheVars, kq, tokenVars, cli>>

\* the session inserts key_db into table token: key_id takes its default,
\* secret_hash is nullable=False
ApiKey_insert(key_id) ==
    /\ apikey.pc \in {"created", "verified"}
    /\ apikey.flush = ""
    /\ apikey' = [apikey EXCEPT
                     !.key_db.key_id = key_id,
                     !.flush = IF apikey.key_db.secret_hash.some
                               THEN "inserted" ELSE "IntegrityError"]
    /\ UNCHANGED <<cacheVars, kq, tokenVars, cli>>

----------------------------------------------------------------------------
(* Specifications *)

Init ==
    /\ CacheInit
    /\ KeyOff
    /\ TokenInit
    /\ CliOff
    /\ ApiKeyOff

Next == \E t \in Threads : Calls(t, ClientTypes \X RaceNodes, RaceNodes)

\* concurrent requester threads sharing one Boto3ClientCache
Spec == Init /\ [][Next]_vars

NextSeq == get_boto(1) \/ Calls(1, SeqCalls, {nA})

\* one thread: a sequential run of requests and calls
SpecSeq == Init /\ [][NextSeq]_vars

InitKey ==
    /\ CacheInit
    /\ KeyInit
    /\ TokenInit
    /\ CliOff
    /\ ApiKeyOff

NextKey ==
    \/ key_before
    \/ \E x \in SecretValues : change_secret(x)
    \/ \E k \in AccessKeyValues : change_access_key(k)
    \/ \E u \in ApiUrlValues : change_api_url(u)
    \/ key_after

\* the key of a node before and after one of its fields changes
SpecKey == InitKey /\ [][NextKey]_vars

NextToken ==
    \/ tick
    \/ import_models
    \/ \E expiration \in {NoTime, At(clock + 1)} : insert_S3Token(expiration)

\* the life of one server process inserting credential rows
SpecToken == Init /\ [][NextToken]_vars

InitCli ==
    /\ CacheInit
    /\ KeyOff
    /\ TokenInit
    /\ CliInit
    /\ ApiKeyOff

NextCli ==
    \/ \E r \in Responses : send_request(r)
    \/ handle_request_error
    \/ exit_with
    \/ uncaught_exception

\* one run of a CLI command that ends in exit_with(handle_request_error(r))
SpecCli == InitCli /\ [][NextCli]_vars

InitApiKey ==
    /\ CacheInit
    /\ KeyOff
    /\ TokenInit
    /\ CliOff
    /\ ApiKeyInit

NextApiKey ==
    \/ \E user_id \in UserIds, key_str \in KeyStrings, salt \in Salts :
           ApiKey_create(user_id, key_str, salt)
    \/ \E key \in KeyStrings : ApiKey_verify(key)
    \/ \E key_id \in KeyStrings : ApiKey_insert(key_id)

\* one API key: created, verified against a key string, inserted
SpecApiKey == InitApiKey /\ [][NextApiKey]_vars

----------------------------------------------------------------------------
(* Properties of the client cache *)

\* the endpoint a node's facts yield for a client type: api_url for s3, the
\* addressing of get_client for sts
EffectiveEndpoint(client_type, node) ==
    IF client_type = "s3" THEN node.api_url ELSE StsEndpoint(node)

\* thread t has returned from get_client
Returned(t) == th[t].pc = "done" /\ th[t].fn = "get_client"

\* C1: every client get_client(kind, node) returns was constructed with that
\* node's access key id and secret and with the endpoint that node's facts
\* yield for the kind.
C1_TenantIsolation ==
    \A t \in Threads :
        Returned(t) =>
            /\ th[t].client.aws_access_key_id = th[t].node.access_key_id
            /\ th[t].client.aws_secret_access_key = th[t].node.secret_access_key
            /\ th[t].client.endpoint_url
                   = EffectiveEndpoint(th[t].client_type, th[t].node)

\* two node records agree on region, API URL, access key id and secret
SameFacts(n, m) ==
    /\ n.region_name = m.region_name
    /\ n.api_url = m.api_url
    /\ n.access_key_id = m.access_key_id
    /\ n.secret_access_key = m.secret_access_key

\* construction i was made by get_client on cache c for this kind and these facts
BuiltFor(i, c, client_type, node) ==
    /\ built[i].fn = "get_client"
    /\ built[i].cache = c
    /\ built[i].client_type = client_type
    /\ SameFacts(built[i].node, node)

\* the key under which construction i is stored
BuiltKey(i) ==
    IF built[i].fn = "get_minio_sdk_client" THEN MinioKey(built[i].node)
    ELSE _get_primary_key(built[i].client_type, built[i].node)

\* C2: in a sequential run on one cache, calls with the same kind and the same
\* region, API URL, access key id and secret construct a client once, all
\* return that instance (every return is the one client constructed for the
\* call's key), and the cache holds one entry for those facts.
C2_OneClientPerKey ==
    /\ \A i, j \in 1..Len(built) :
           built[i].cache = built[j].cache /\ BuiltKey(i) = BuiltKey(j) => i = j
    /\ \A t \in Threads :
           Returned(t) =>
               \E i \in 1..Len(built) :
                   /\ built[i].cache = th[t].boto
                   /\ BuiltKey(i) = KeyOf(t)
                   /\ th[t].client = built[i].client
    /\ \A i, j \in 1..Len(built) :
           BuiltFor(j, built[i].cache, built[i].client_type, built[i].node)
               /\ built[i].fn = "get_client" => i = j
    /\ \A t \in Threads : \A i \in 1..Len(built) :
           Returned(t) /\ BuiltFor(i, th[t].boto, th[t].client_type, th[t].node)
               => th[t].client = built[i].client
    /\ \A c \in 1..ncaches : \A i \in 1..Len(built) :
           built[i].fn = "get_client" =>
               Cardinality({k \in DOMAIN cache[c] :
                   \E j \in 1..Len(built) :
                       /\ cache[c][k] = built[j].client
                       /\ BuiltFor(j, c, built[i].client_type, built[i].node)}) <= 1

\* C2's case: a call for the independently registered twin of node a returned
\* the instance constructed for node a.
C2_Witness ==
    /\ Returned(1)
    /\ th[1].node = nTwin
    /\ \E i \in 1..Len(built) : built[i].node = nA /\ th[1].client = built[i].client

\* two clients are equivalent to use: same endpoint, same credentials
Equivalent(a, b) ==
    /\ a.endpoint_url = b.endpoint_url
    /\ a.aws_access_key_id = b.aws_access_key_id
    /\ a.aws_secret_access_key = b.aws_secret_access_key

\* C3: whatever the interleaving of calls with one key, the cache retains a
\* client for the key and every call that returned got a client equivalent in
\* endpoint and credentials to the retained one.
C3_RaceConverges ==
    \A t \in Threads :
        Returned(t) =>
            /\ KeyOf(t) \in DOMAIN cache[th[t].boto]
            /\ Equivalent(th[t].client, cache[th[t].boto][KeyOf(t)])

\* C4: after only the secret, only the access key id or only the API URL of a
\* node changes, _get_primary_key returns a different digest.
C4_ChangedFieldChangesKey == kq.pc = "rekeyed" => kq.before # kq.after

\* the addressing rule as specified: an explicit STS URL, else the regional
\* endpoint for a non-empty assume-role ARN, else the node's API URL
SpecifiedStsEndpoint(node) ==
    IF Truthy(node.sts_api_url) THEN node.sts_api_url.v
    ELSE IF Truthy(node.assume_role_arn)
         THEN <<"https://", "sts.">> \o node.region_name \o <<".amazonaws.com">>
         ELSE node.api_url

\* C5: every sts client get_client builds has the endpoint of the addressing
\* rule; a node with an absent or empty ARN gets its own API URL.
C5_StsAddressingRule ==
    \A i \in 1..Len(built) :
        built[i].fn = "get_client" /\ built[i].client_type = "sts" =>
            built[i].client.endpoint_url = SpecifiedStsEndpoint(built[i].node)

\* C6: across the requests of one process, whichever cache get_boto handed
\* them, a client for given kind and facts is constructed once (no calls race
\* in a sequential run), so constructions do not grow with requests.
C6_ProcessWideWarm ==
    \A i, j \in 1..Len(built) :
        /\ built[i].fn = built[j].fn
        /\ built[i].client_type = built[j].client_type
        /\ SameFacts(built[i].node, built[j].node)
        => i = j

\* C7: in every step the keys of a cache only grow, an entry is overwritten
\* only by a client built for that key, and a call for a node whose secret was
\* rotated leaves two entries: the one under the old secret and a new one.
C7_AppendOnly ==
    [][\A c \in 1..ncaches :
        /\ DOMAIN cache[c] \subseteq DOMAIN cache'[c]
        /\ \A k \in DOMAIN cache[c] :
               cache'[c][k] # cache[c][k] =>
                   \E i \in 1..Len(built) :
                       built[i].client = cache'[c][k] /\ BuiltKey(i) = k
        /\ \A t \in Threads : \A i \in 1..Len(built) :
               /\ th[t].pc # "done" /\ th'[t].pc = "done"
               /\ th'[t].boto = c /\ built[i].cache = c
               /\ built[i].fn = th'[t].fn
               /\ built[i].client_type = th'[t].client_type
               /\ built[i].node.name = th'[t].node.name
               /\ built[i].node.secret_access_key # th'[t].node.secret_access_key
               /\ BuiltKey(i) \in DOMAIN cache[c]
               => /\ BuiltKey(i) \in DOMAIN cache'[c]
                  /\ KeyOf(t)' \in DOMAIN cache'[c]
                  /\ KeyOf(t)' # BuiltKey(i)]_vars

----------------------------------------------------------------------------
(* Properties of the S3Token rows *)

\* C8: every row inserted without an explicit expiration has the expiration
\* fixed when the models were defined, definition time + 7 days, whenever it
\* is inserted; a row created later than that is expired when created.
C8_FrozenDefaultExpiration ==
    \A i \in 1..Len(minio_token) :
        ~minio_token[i].explicit =>
            /\ minio_token[i].expiration = models.at + SevenDays
            /\ minio_token[i].created > models.at + SevenDays
                   => minio_token[i].expiration < minio_token[i].created

\* C8's case: two rows inserted at different times without an expiration, the
\* later one more than 7 days after the models were defined.
C8_Witness ==
    \E i, j \in 1..Len(minio_token) :
        /\ ~minio_token[i].explicit /\ ~minio_token[j].explicit
        /\ minio_token[i].created < minio_token[j].created
        /\ minio_token[j].created > models.at + SevenDays

----------------------------------------------------------------------------
(* Properties of get_client's client types *)

\* C9: a get_client call fails with ValueError exactly when its kind is not
\* s3 or sts, that call changes neither the cache nor what was constructed,
\* and no call ever reaches NotImplementedError.
C9_UnsupportedKind ==
    [][\A t \in Threads :
        /\ th'[t].pc # "NotImplementedError"
        /\ (th[t].pc \in Resting /\ th'[t] # th[t] /\ th'[t].fn = "get_client") =>
               /\ th'[t].pc = "ValueError" <=> th'[t].client_type \notin {"s3", "sts"}
               /\ th'[t].pc = "ValueError" => cache' = cache /\ built' = built
        /\ th'[t].client_type \notin {"s3", "sts", ""}
               => th'[t].pc \in {"idle", "ValueError"}]_vars

\* C9's case: a call with kind ec2 raised ValueError on a cache that holds a
\* client.
C9_Witness ==
    /\ th[1].pc = "ValueError"
    /\ th[1].client_type = "ec2"
    /\ cache[th[1].boto] # <<>>

----------------------------------------------------------------------------
(* Properties of the CLI *)

\* C10: exit_with(handle_request_error(r)) ends the process with status 1 if
\* r is not ok and with status 0 if r is ok, whatever the body.
C10_ExitStatus ==
    cli.pc = "exited" => cli.status = IF Ok(cli.r) THEN 0 ELSE 1

----------------------------------------------------------------------------
(* Properties of ApiKey *)

\* C11: the key_db of create(user) carries the hash of key_str in its
\* secret_hash column, verify(key_db, key) returns true for key_str and false
\* for every other key string, and the row can be persisted.
C11_ApiKeyRoundTrip ==
    /\ apikey.pc \in {"created", "verified"} =>
           /\ apikey.key_db.secret_hash.some
           /\ checkpw(apikey.key_str, apikey.key_db.secret_hash.v)
    /\ apikey.pc = "verified" =>
           apikey.result = IF apikey.key = apikey.key_str THEN "True" ELSE "False"
    /\ apikey.flush # "IntegrityError"

====
